---- MODULE Spec2Model ----
(***************************************************************************)
(* Model of the TypescriptRandom library: the TSMT$Deviates generator      *)
(* (src/src/deviates.ts) and the TSMT$Bin action selector                  *)
(* (src/src/Binning.ts).                                                   *)
(*                                                                         *)
(* Numbers.  A uniform deviate is AM*iy with AM = 1/IM, so a deviate is    *)
(* represented by its integer numerator iy (the value is iy/IM).  The      *)
(* JavaScript values NaN and undefined, and the clamp value RNMX, are      *)
(* represented by three reserved integers outside the range of every       *)
(* number the model computes.                                              *)
(***************************************************************************)
EXTENDS Integers, Sequences, FiniteSets, TLC

----------------------------------------------------------------------------
(* Constants of TSMT$Deviates *)

IA == 16807
IM == 2147483647
IQ == 127773
IR == 2836
NTAB == 32

\* NDIV = 1 + (IM-1)/NTAB is the JavaScript number 67108864.9375, that is
\* NDIVWhole + NDIVSixteenths/16.
NDIVWhole == 67108864
NDIVSixteenths == 15

\* RNMX = 1 - EPS with EPS = 1.2e-7.  RNMX*IM = 2147483389.30..., so AM*iy
\* exceeds RNMX exactly when iy > RNMXFloor.
RNMXFloor == 2147483389

\* Reserved representations of NaN, undefined and the clamp value RNMX.
NaN == -2000000001
Undefined == -2000000002
RNMX == -2000000003

IsNaN(x) == x = NaN \/ x = Undefined   \* isNaN(undefined) is true

IsNum(x) == x # NaN /\ x # Undefined /\ x # RNMX

\* JavaScript x < y on numbers: false when either side is NaN.
Lt(x, y) == ~IsNaN(x) /\ ~IsNaN(y) /\ x < y

----------------------------------------------------------------------------
(* Bounds of the model *)

\* largest number of continuation draws (init = false) after an initialization
MaxDraws == 2

\* start values offered to the generator: not-a-number, negative, zero, two
\* small valid seeds (the first deviate of 1 is 0.416, that of 3 is 0.898),
\* and 4171825, whose second deviate reaches the clamp
Seeds == {NaN, -1, 0, 1, 3, 4171825}

\* <<mean, standard deviation>> pairs offered to normal() and logistic():
\* each of the two takes a not-a-number, a negative, a zero and a positive value
Params == {<<NaN, 0>>, <<-1, NaN>>, <<0, 2>>, <<2, -1>>}

\* A continuing call (init = false) reads neither start nor mu and sig; it is
\* offered a zero and a non-zero start and one pair of parameters.
Starts(init) == IF init THEN Seeds ELSE {0, 1}
ParamsOf(init) == IF init THEN Params ELSE {<<2, -1>>}

\* largest number of bins passed to TSMT$Bin.create()
MaxBins == 3

\* Percentages are multiples of PercentStep; a test value of nextAction() is
\* the midpoint of one of the 100/PercentStep equal cells of [0,1), in percent.
PercentStep == 10
Percentages == {PercentStep * k : k \in 1..(100 \div PercentStep)}
TestPoints == {PercentStep * k + PercentStep \div 2 : k \in 0..(100 \div PercentStep - 1)}

\* The arrays passed to create(): bin i carries the action label i.
BinInputs ==
  UNION {[1..n -> [percentage : Percentages, action : {0}]] : n \in 0..0}
  \cup UNION {{[i \in 1..n |-> [percentage |-> p[i], action |-> i]] :
                p \in [1..n -> Percentages]} : n \in 1..MaxBins}

----------------------------------------------------------------------------
(* The uniform engine *)

\* k = Math.floor(idum/IQ); idum = IA*(idum - k*IQ) - IR*k; if (idum < 0) idum += IM
Schrage(idum) ==
  IF IsNaN(idum) THEN NaN
  ELSE LET k == idum \div IQ
           t == IA * (idum - k * IQ) - IR * k
       IN IF t < 0 THEN t + IM ELSE t

\* Math.floor(iy/NDIV) for iy >= 0; NaN for NaN or undefined
FloorDivNDIV(iy) ==
  IF IsNaN(iy) THEN NaN
  ELSE LET q == iy \div NDIVWhole
           r == iy % NDIVWhole
       IN IF 16 * r >= NDIVSixteenths * q THEN q ELSE q - 1

\* this.idum = isNaN(start) && start < 1 ? 1 : start
SeedOf(start) == IF IsNaN(start) /\ Lt(start, 1) THEN 1 ELSE start

EmptyTable == [i \in 0..(NTAB - 1) |-> Undefined]

\* the body of the warm-up loop: this.idum = nx; if (j < NTAB) this.iv[j] = nx
Stored(w, nx, j) ==
  [idum |-> nx, iv |-> IF j < NTAB THEN [w.iv EXCEPT ![j] = nx] ELSE w.iv]

\* for (j = len; j >= 0; j--) { advance idum; if (j < NTAB) iv[j] = idum }
\* w.idum and w.iv are the seed and the table before the iteration with index j;
\* a seed that is not a number stays so and fills the table with NaN
RECURSIVE WarmUp(_, _)
WarmUp(w, j) ==
  IF j < 0 THEN w
  ELSE IF IsNaN(w.idum) THEN WarmUp(Stored(w, NaN, j), j - 1)
  ELSE WarmUp(Stored(w, Schrage(w.idum), j), j - 1)

\* temp = AM*iy; return temp > RNMX ? RNMX : temp
Scale(iy) ==
  IF IsNaN(iy) THEN NaN
  ELSE IF iy > RNMXFloor THEN RNMX ELSE iy

\* the warm-up of an initializing call: the seed and the table after the loop
Warm(start) == WarmUp([idum |-> SeedOf(start), iv |-> EmptyTable], NTAB + 7)

\* Warm, tabulated once for the start values of the model
Warmed == [start \in Seeds |-> Warm(start)]

\* uniform() whose warm-up works on a copy of the seed: the table is filled
\* from start, the seed the instance holds is advanced from its old value
uniformStaleSeed(g, start, init) ==
  LET w   == IF init
               THEN IF start \in Seeds THEN Warmed[start] ELSE Warm(start)
               ELSE [idum |-> g.idum, iv |-> g.iv]
      iy0 == IF init THEN w.iv[0] ELSE 0
      nx  == Schrage(g.idum)
      j   == FloorDivNDIV(iy0)
      iy  == IF IsNaN(j) THEN g.ivNaN ELSE w.iv[j]
  IN [g   |-> [g EXCEPT !.idum = nx,
                        !.iv = IF IsNaN(j) THEN w.iv ELSE [w.iv EXCEPT ![j] = nx],
                        !.ivNaN = IF IsNaN(j) THEN nx ELSE g.ivNaN],
      ret |-> Scale(iy),
      j   |-> j,
      iy  |-> iy]

\* uniform() that warms up only an instance whose table is still empty
uniformLazyInit(g, start, init) ==
  LET warm == init /\ g.iv[NTAB - 1] = Undefined
      w   == IF warm
               THEN IF start \in Seeds THEN Warmed[start] ELSE Warm(start)
               ELSE [idum |-> g.idum, iv |-> g.iv]
      iy0 == IF warm THEN w.iv[0] ELSE 0
      nx  == Schrage(w.idum)
      j   == FloorDivNDIV(iy0)
      iy  == IF IsNaN(j) THEN g.ivNaN ELSE w.iv[j]
  IN [g   |-> [g EXCEPT !.idum = nx,
                        !.iv = IF IsNaN(j) THEN w.iv ELSE [w.iv EXCEPT ![j] = nx],
                        !.ivNaN = IF IsNaN(j) THEN nx ELSE g.ivNaN],
      ret |-> Scale(iy),
      j   |-> j,
      iy  |-> iy]

\* One call of uniform(start, init) on the instance g.  The result carries
\* the new instance, the returned deviate, and the table index j and table
\* value iy the call used.  g.ivNaN is the array property iv["NaN"], which
\* is read and written when j is NaN and survives iv.length = 0.
uniform(g, start, init) ==
  LET w   == IF init
               THEN IF start \in Seeds THEN Warmed[start] ELSE Warm(start)
               ELSE [idum |-> g.idum, iv |-> g.iv]
      iy0 == IF init THEN w.iv[0] ELSE 0
      nx  == Schrage(w.idum)
      j   == FloorDivNDIV(iy0)
      iy  == IF IsNaN(j) THEN g.ivNaN ELSE w.iv[j]
  IN [g   |-> [g EXCEPT !.idum = nx,
                        !.iv = IF IsNaN(j) THEN w.iv ELSE [w.iv EXCEPT ![j] = nx],
                        !.ivNaN = IF IsNaN(j) THEN nx ELSE g.ivNaN],
      ret |-> Scale(iy),
      j   |-> j,
      iy  |-> iy]

\* The parameters of gamma() are held in sixths: Unit is 1.0, Third is
\* 1.0/3.0 and Half is 0.5.
Unit == 6
Third == 2
Half == 3

\* constructor(): u = 0, s = 1, a = 1, b = 1, a1 = 0, a2 = 0
NewDeviates ==
  [idum |-> 0, iv |-> EmptyTable, ivNaN |-> Undefined,
   normVal |-> <<0, 0>>, u |-> 0, s |-> 1,
   a |-> Unit, b |-> Unit, a1 |-> 0, a2 |-> 0]

----------------------------------------------------------------------------
(* Arithmetic of the polar Box-Muller test *)

\* Numerator of v = 2.0*x - 1.0 for a deviate x = iy/IM: v = (2*iy - IM)/IM.
\* The clamp value gives v = 1 - 2*EPS, kept symbolic.
VNum(x) ==
  IF IsNaN(x) THEN NaN
  ELSE IF x = RNMX THEN RNMX
  ELSE x - (IM - x)

Abs(x) == IF IsNum(x) /\ x < 0 THEN 0 - x ELSE x

\* Exact squares of numbers below 2^31 as coefficient vectors in base 2^14.
Limb == 16384

Sq(a) ==
  LET a0 == a % Limb
      a1 == (a \div Limb) % Limb
      a2 == a \div (Limb * Limb)
  IN <<a0 * a0, 2 * a0 * a1, 2 * a0 * a2 + a1 * a1, 2 * a1 * a2, a2 * a2>>

\* carry propagation: the digits of a coefficient vector, least significant first
RECURSIVE Digits(_, _, _)
Digits(c, i, carry) ==
  IF i > Len(c) THEN <<carry>>
  ELSE LET t == c[i] + carry
       IN <<t % Limb>> \o Digits(c, i + 1, t \div Limb)

\* x < y for digit sequences of equal length
RECURSIVE DigitsLess(_, _, _)
DigitsLess(x, y, i) ==
  IF i = 0 THEN FALSE
  ELSE IF x[i] # y[i] THEN x[i] < y[i]
  ELSE DigitsLess(x, y, i - 1)

\* a*a + b*b < m*m for 0 <= a, b, m < 2^31
SumSqLess(a, b, m) ==
  LET sa == Sq(a)
      sb == Sq(b)
      x  == Digits([i \in 1..5 |-> sa[i] + sb[i]], 1, 0)
      y  == Digits(Sq(m), 1, 0)
  IN DigitsLess(x, y, 6)

\* With one deviate at the clamp, v = 1 - 2.4e-7 and v*v + w*w < 1 holds
\* exactly when |IM*w| <= RNMXPartnerMax (IM*sqrt(4.8e-7 - 5.76e-14) = 1487820.2).
RNMXPartnerMax == 1487820

\* the loop test of normal(): rsq >= 1.0 || rsq === 0.0, for rsq = v1*v1 + v2*v2
Rejected(v1, v2) ==
  IF IsNaN(v1) \/ IsNaN(v2) THEN FALSE
  ELSE IF v1 = RNMX /\ v2 = RNMX THEN TRUE
  ELSE IF v1 = RNMX THEN Abs(v2) > RNMXPartnerMax
  ELSE IF v2 = RNMX THEN Abs(v1) > RNMXPartnerMax
  ELSE (v1 = 0 /\ v2 = 0) \/ ~SumSqLess(Abs(v1), Abs(v2), IM)

\* A standard normal value v*fac, fac = sqrt(-2 ln(rsq)/rsq), rsq = v*v + w*w,
\* is represented by <<v, |w|>>; 0.0 by <<0, 0>>, NaN by <<NaN, NaN>>.
Polar(v, w) ==
  IF IsNaN(v) \/ IsNaN(w) THEN <<NaN, NaN>>
  ELSE IF v = 0 THEN <<0, 0>>
  ELSE <<v, Abs(w)>>

\* this.u + this.s*z for a standard normal value z
Affine(u, s, z) ==
  IF IsNaN(u) \/ IsNaN(s) \/ IsNaN(z[1]) THEN <<NaN>>
  ELSE <<u, s, z[1], z[2]>>

\* this.u = isNaN(mu) || mu < 0 ? 0.0 : mu
MeanOf(mu) == IF IsNaN(mu) \/ Lt(mu, 0) THEN 0 ELSE mu

\* this.s = isNaN(sig) || sig > 0 ? sig : 1.0
StdOf(sig) == IF IsNaN(sig) \/ Lt(0, sig) THEN sig ELSE 1

----------------------------------------------------------------------------
(* Parameters of gamma(), in sixths *)

\* the test if (start): false for 0 and for NaN
Truthy(start) == ~IsNaN(start) /\ start # 0

\* this.a = isNaN(alpha) || (alpha <= 0.0) ? 1.0 : alpha, then
\* if (this.a < 1.0) this.a += 1.0
ShapeOf(alpha) ==
  LET a == IF IsNaN(alpha) \/ alpha <= 0 THEN Unit ELSE alpha
  IN IF a < Unit THEN a + Unit ELSE a

\* this.b = isNaN(beta) || beta < 0.0001 ? 0.5 : beta; a number of sixths is
\* below 0.0001 exactly when it is below one sixth
RateOf(beta) == IF IsNaN(beta) \/ beta < 1 THEN Half ELSE beta

\* The parameter block of gamma().  a1 = a - 1/3; a2 = 1/sqrt(9*a1) is held
\* as the value 9*a1 it is the inverse root of, and 0 is the constructor's 0.0.
SetShape(g, alpha, beta) ==
  [g EXCEPT !.a = ShapeOf(alpha),
            !.b = RateOf(beta),
            !.a1 = ShapeOf(alpha) - Third,
            !.a2 = 9 * (ShapeOf(alpha) - Third)]

\* Whether the loop test of gamma(),
\*   u > 1.0 - xSQ*xSQ && Math.log(u) > 0.5*xSQ + a1*(1.0 - v + Math.log(v)),
\* can hold after an iteration that left the deviates x and u.  It is false
\* when either is NaN, when u or x is 0 (u < 1), and when a1 is 0 (then v is
\* 1 and log(u) < 0 <= 0.5*xSQ); in the other cases the comparison of the
\* logarithms is not computed and both outcomes are kept.
MayRepeat(g, x, u) ==
  ~IsNaN(x) /\ ~IsNaN(u) /\ x # 0 /\ u # 0 /\ g.a1 # 0

----------------------------------------------------------------------------
VARIABLES
  d,      \* the TSMT$Deviates instance
  pc,     \* "idle", or the method whose loop is running
  call,   \* the arguments and draw count of the running call
  age,    \* continuation draws since the last initializing draw, up to MaxDraws
  last,   \* the last completed public call and what it returned
  tr,     \* the last uniform draw: seed in force, table index, table value read
  e,      \* a second, separate TSMT$Deviates instance
  runs,   \* per instance: the seed of its last initializing call and the deviates since
  bin,    \* the TSMT$Bin instance
  binLast \* the last create() and nextAction() calls on it

vars == <<d, pc, call, age, last, tr, e, runs, bin, binLast>>

\* the variables a call on the instance d leaves alone
others == <<e, runs, bin, binLast>>

NoArgs == [start |-> 0, mu |-> 0, sig |-> 0, init |-> FALSE, draws |-> 0,
           odd |-> FALSE, prevNormal |-> -1]
NoCall == [op |-> "none", start |-> 0, mu |-> 0, sig |-> 0, init |-> FALSE,
           val |-> <<0>>, draws |-> 0, prevNormal |-> -1]
NoDraw == [seed |-> 0, n |-> 0, j |-> 0, iy |-> 0, prevIy |-> 0, init |-> FALSE]
NoRun == [seed |-> Undefined, outs |-> <<>>]

\* constructor() of TSMT$Bin
NewBin == [_bins |-> <<>>, _actions |-> <<>>]
NoBinCall == [input |-> <<>>, created |-> FALSE, test |-> 0, action |-> 0]

Init ==
  /\ d = NewDeviates
  /\ pc = "idle"
  /\ call = NoArgs
  /\ age = 0
  /\ last = NoCall
  /\ tr = NoDraw
  /\ e = NewDeviates
  /\ runs = [i \in 1..2 |-> NoRun]
  /\ bin = NewBin
  /\ binLast = NoBinCall

\* Bookkeeping of one uniform draw r = uniform(g, start, init) made after the
\* draw t: the start value of the last initializing draw, the number of draws
\* since (up to 2), and the table value of the draw before a continuing draw.
Traced(t, r, start, init) ==
  [seed |-> IF init THEN start ELSE t.seed,
   n |-> IF init THEN 1 ELSE IF t.n < 2 THEN t.n + 1 ELSE 2,
   j |-> r.j, iy |-> r.iy,
   prevIy |-> IF init THEN 0 ELSE t.iy,
   init |-> init]

Aged(a, init) == IF init THEN 0 ELSE IF a < MaxDraws THEN a + 1 ELSE a

\* a call that continues the sequence is started only below the draw bound
CanDraw(init) == init \/ age < MaxDraws

\* draw counts are kept up to 2
Count(n) == IF n < 2 THEN n ELSE 2

\* The arguments of a call as it starts.  start, mu and sig are read only when
\* init is true, and are kept only then.  draws counts the uniform draws of the
\* call up to 2, odd tells whether its loop has run an odd number of times.  prevNormal is the number of draws of
\* the call completed just before when that was a normal() call, -1 otherwise.
Args(start, mu, sig, init) ==
  [start |-> IF init THEN start ELSE 0,
   mu |-> IF init THEN mu ELSE 0,
   sig |-> IF init THEN sig ELSE 0,
   init |-> init, draws |-> 0, odd |-> FALSE,
   prevNormal |-> IF last.op = "normal" THEN last.draws ELSE -1]

\* The record of a completed call: its arguments, the returned value and the
\* number of uniform draws it made.  While a call is running there is no
\* completed call on record.
Done(op, a, val, draws) ==
  [op |-> op, start |-> a.start, mu |-> a.mu, sig |-> a.sig, init |-> a.init,
   val |-> val, draws |-> Count(draws), prevNormal |-> a.prevNormal]

\* public uniform(start, init)
Uniform(start, init) ==
  /\ pc = "idle"
  /\ CanDraw(init)
  /\ LET r == uniform(d, start, init)
     IN /\ d' = r.g
        /\ age' = Aged(age, init)
        /\ last' = Done("uniform", Args(start, 0, 0, init), <<r.ret>>, 1)
        /\ tr' = Traced(tr, r, start, init)
  /\ UNCHANGED <<pc, call>>
  /\ UNCHANGED others

\* One iteration of while (tmp == 0.0) tmp = this.uniform(start, init) of the
\* call a, and return -Math.log(tmp) when the loop ends; -ln(x) is
\* represented by <<x>>.
ExponentialIter(a) ==
  LET r == uniform(d, a.start, a.init)
  IN /\ d' = r.g
     /\ age' = Aged(age, a.init)
     /\ tr' = Traced(tr, r, a.start, a.init)
     /\ IF r.ret = 0
          THEN /\ pc' = "exponential"
               /\ call' = [a EXCEPT !.draws = Count(a.draws + 1), !.odd = ~a.odd]
               /\ last' = NoCall
          ELSE /\ pc' = "idle"
               /\ call' = NoArgs
               /\ last' = Done("exponential", a, <<r.ret>>, a.draws + 1)

\* exponential(start, init), up to the end of the first iteration of its loop
Exponential(start, init) ==
  /\ pc = "idle"
  /\ CanDraw(init)
  /\ ExponentialIter(Args(start, 0, 0, init))
  /\ UNCHANGED others

\* a further iteration of the loop of exponential()
ExponentialLoop ==
  /\ pc = "exponential"
  /\ ExponentialIter(call)
  /\ UNCHANGED others

\* NormalIter without the assignment this.normVal = v1*fac
NormalIterNoCache(g, a) ==
  \E r1 \in {uniform(g, a.start, a.init)} :
  \E r2 \in {uniform(r1.g, a.start, a.init)} :
  \E rejected \in {Rejected(VNum(r1.ret), VNum(r2.ret))} :
  LET v1 == VNum(r1.ret)
      v2 == VNum(r2.ret)
  IN /\ age' = Aged(Aged(age, a.init), a.init)
     /\ tr' = Traced(Traced(tr, r1, a.start, a.init), r2, a.start, a.init)
     /\ IF rejected
          THEN /\ d' = r2.g
               /\ pc' = "normal"
               /\ call' = [a EXCEPT !.draws = Count(a.draws + 2), !.odd = ~a.odd]
               /\ last' = NoCall
          ELSE /\ d' = r2.g
               /\ pc' = "idle"
               /\ call' = NoArgs
               /\ last' = Done("normal", a, Affine(g.u, g.s, Polar(v2, v1)),
                               a.draws + 2)

\* One iteration of the rejection loop of normal() of the call a on the
\* instance g, and the return when the pair is accepted.
NormalIter(g, a) ==
  \E r1 \in {uniform(g, a.start, a.init)} :
  \E r2 \in {uniform(r1.g, a.start, a.init)} :
  \E rejected \in {Rejected(VNum(r1.ret), VNum(r2.ret))} :
  LET v1 == VNum(r1.ret)
      v2 == VNum(r2.ret)
  IN /\ age' = Aged(Aged(age, a.init), a.init)
     /\ tr' = Traced(Traced(tr, r1, a.start, a.init), r2, a.start, a.init)
     /\ IF rejected
          THEN /\ d' = r2.g
               /\ pc' = "normal"
               /\ call' = [a EXCEPT !.draws = Count(a.draws + 2), !.odd = ~a.odd]
               /\ last' = NoCall
          ELSE /\ d' = [r2.g EXCEPT !.normVal = Polar(v1, v2)]
               /\ pc' = "idle"
               /\ call' = NoArgs
               /\ last' = Done("normal", a, Affine(g.u, g.s, Polar(v2, v1)),
                               a.draws + 2)

\* normal(start, mu, sig, init): the parameter update, then the cached value
\* or the first iteration of the rejection loop
Normal(start, mu, sig, init) ==
  /\ pc = "idle"
  /\ d.normVal[1] # 0 \/ CanDraw(init)
  /\ LET g == IF init THEN [d EXCEPT !.u = MeanOf(mu), !.s = StdOf(sig)] ELSE d
     IN IF g.normVal[1] = 0
          THEN NormalIter(g, Args(start, mu, sig, init))
          ELSE /\ d' = [g EXCEPT !.normVal = <<0, 0>>]
               /\ last' = Done("normal", Args(start, mu, sig, init),
                               Affine(g.u, g.s, g.normVal), 0)
               /\ UNCHANGED <<pc, call, age, tr>>
  /\ UNCHANGED others

\* a further iteration of the rejection loop of normal()
NormalLoop ==
  /\ pc = "normal"
  /\ NormalIter(d, call)
  /\ UNCHANGED others

\* One iteration of while (v*(1.0-v) == 0.0) v = this.uniform(start, init) of
\* the call a on the instance g, and the return when the loop ends;
\* u + C*s*ln(v/(1-v)) is represented by <<u, s, v>>.
LogisticIter(g, a) ==
  LET r == uniform(g, a.start, a.init)
  IN /\ d' = r.g
     /\ age' = Aged(age, a.init)
     /\ tr' = Traced(tr, r, a.start, a.init)
     /\ IF r.ret = 0
          THEN /\ pc' = "logistic"
               /\ call' = [a EXCEPT !.draws = Count(a.draws + 1), !.odd = ~a.odd]
               /\ last' = NoCall
          ELSE /\ pc' = "idle"
               /\ call' = NoArgs
               /\ last' = Done("logistic", a,
                               IF IsNaN(r.ret) \/ IsNaN(g.s) THEN <<NaN>>
                               ELSE <<g.u, g.s, r.ret>>,
                               a.draws + 1)

\* logistic(start, mu, sig, init), up to the end of the first iteration of its loop
Logistic(start, mu, sig, init) ==
  /\ pc = "idle"
  /\ CanDraw(init)
  /\ LogisticIter(IF init THEN [d EXCEPT !.u = MeanOf(mu), !.s = StdOf(sig)] ELSE d,
                  Args(start, mu, sig, init))
  /\ UNCHANGED others

\* a further iteration of the loop of logistic()
LogisticLoop ==
  /\ pc = "logistic"
  /\ LogisticIter(d, call)
  /\ UNCHANGED others

\* The arguments of a gamma() call as it starts: alpha and beta are read when
\* start is truthy; x is the deviate of the inner loop, drawn in the first
\* iteration.
GammaArgs(start, alpha, beta, init) ==
  [start |-> IF init THEN start ELSE 0,
   mu |-> IF init \/ Truthy(start) THEN alpha ELSE 0,
   sig |-> IF init \/ Truthy(start) THEN beta ELSE 0,
   init |-> init, draws |-> 0, odd |-> FALSE, x |-> Undefined,
   prevNormal |-> -1]

\* One iteration of the outer loop of gamma() of the call a on the instance
\* g, and the return when the loop ends.  The inner loop while (v <= 0.0)
\* draws x once, in the first iteration: v = 1 + a2*x is at least 1 or NaN,
\* and stays so under v = v*v*v.  The returned a1*v/b is represented by
\* <<a1, b, x>>.
GammaIter(g, a) ==
  LET first == a.draws = 0
      r1 == uniform(g, a.start, a.init)
      g1 == IF first THEN r1.g ELSE g
      x  == IF first THEN r1.ret ELSE a.x
      r2 == uniform(g1, a.start, a.init)
      t1 == IF first THEN Traced(tr, r1, a.start, a.init) ELSE tr
      a0 == IF first THEN Aged(age, a.init) ELSE age
  IN /\ d' = r2.g
     /\ age' = Aged(a0, a.init)
     /\ tr' = Traced(t1, r2, a.start, a.init)
     /\ \E again \in IF MayRepeat(g, x, r2.ret) /\ (a.init \/ a0 < MaxDraws)
                         THEN BOOLEAN ELSE {FALSE} :
          IF again
            THEN /\ pc' = "gamma"
                 /\ call' = [a EXCEPT !.draws = Count(a.draws + 2), !.odd = ~a.odd,
                                      !.x = x]
                 /\ last' = NoCall
            ELSE /\ pc' = "idle"
                 /\ call' = NoArgs
                 /\ last' = Done("gamma", a, <<g.a1, g.b, x>>, a.draws + 2)

\* gamma(start, alpha, beta, init): the parameter update, then the first
\* iteration of the loop
Gamma(start, alpha, beta, init) ==
  /\ pc = "idle"
  /\ CanDraw(init)
  /\ GammaIter(IF Truthy(start) THEN SetShape(d, alpha, beta) ELSE d,
               GammaArgs(start, alpha, beta, init))
  /\ UNCHANGED others

\* a further iteration of the loop of gamma()
GammaLoop ==
  /\ pc = "gamma"
  /\ GammaIter(d, call)
  /\ UNCHANGED others

Next ==
  \/ \E init \in BOOLEAN : \E start \in Starts(init) : Uniform(start, init)
  \/ \E init \in BOOLEAN : \E start \in Starts(init) : Exponential(start, init)
  \/ ExponentialLoop
  \/ \E init \in BOOLEAN : \E start \in Starts(init), p \in ParamsOf(init) :
       Normal(start, p[1], p[2], init)
  \/ NormalLoop
  \/ \E init \in BOOLEAN : \E start \in Starts(init), p \in ParamsOf(init) :
       Logistic(start, p[1], p[2], init)
  \/ LogisticLoop

Spec == Init /\ [][Next]_vars

\* The calls with a retry-until-nonzero loop, with the loops running on: the
\* code is synchronous, so a loop whose test holds takes its next iteration.
NextRetry ==
  \/ \E init \in BOOLEAN : \E start \in Starts(init) : Uniform(start, init)
  \/ \E init \in BOOLEAN : \E start \in Starts(init) : Exponential(start, init)
  \/ ExponentialLoop
  \/ \E init \in BOOLEAN : \E start \in Starts(init), p \in ParamsOf(init) :
       Logistic(start, p[1], p[2], init)
  \/ LogisticLoop

SpecRetry ==
  Init /\ [][NextRetry]_vars /\ WF_vars(ExponentialLoop) /\ WF_vars(LogisticLoop)

\* <<alpha, beta>> pairs offered to gamma(), in sixths: not-a-number, zero, a
\* shape below 1.0 (0.5) and values above 1.0
Shapes == {<<NaN, 0>>, <<0, NaN>>, <<Half, 2 * Unit>>, <<2 * Unit, 3 * Unit>>}

\* start values offered to the calls that take parameters: not-a-number and
\* zero, for which if (start) fails, and a valid seed
ParamSeeds(init) == IF init THEN {NaN, 0, 1} ELSE {0, 1}

\* The calls that take distribution parameters.  A continuing normal() or
\* logistic() reads no parameter; gamma() reads them whenever start is truthy.
NextParams ==
  \/ \E init \in BOOLEAN : \E start \in ParamSeeds(init), p \in ParamsOf(init) :
       Normal(start, p[1], p[2], init)
  \/ NormalLoop
  \/ \E init \in BOOLEAN : \E start \in ParamSeeds(init), p \in ParamsOf(init) :
       Logistic(start, p[1], p[2], init)
  \/ LogisticLoop
  \/ \E init \in BOOLEAN : \E start \in ParamSeeds(init), p \in Shapes :
       Gamma(start, p[1], p[2], init)
  \/ GammaLoop

SpecParams == Init /\ [][NextParams]_vars

\* uniform() and normal() calls, with the rejection loop of normal() running
\* on: the code is synchronous, so a loop whose test holds takes its next
\* iteration.
NextNormal ==
  \/ \E init \in BOOLEAN : \E start \in Starts(init) : Uniform(start, init)
  \/ \E init \in BOOLEAN : \E start \in Starts(init), p \in ParamsOf(init) :
       Normal(start, p[1], p[2], init)
  \/ NormalLoop

SpecNormal == Init /\ [][NextNormal]_vars /\ WF_vars(NormalLoop)

----------------------------------------------------------------------------
(* Two separate instances drawing uniform deviates *)

Inst(i) == IF i = 1 THEN d ELSE e

\* uniform(start, init) on instance i; a continuing call passes the start
\* value of the initializing call it continues
PairUniform(i, start, init) ==
  /\ init \/ (runs[i].seed = start /\ Len(runs[i].outs) <= MaxDraws)
  /\ LET r == uniform(Inst(i), start, init)
     IN /\ IF i = 1 THEN d' = r.g /\ UNCHANGED e
                    ELSE e' = r.g /\ UNCHANGED d
        /\ runs' = [runs EXCEPT ![i] =
                      IF init THEN [seed |-> start, outs |-> <<r.ret>>]
                      ELSE [@ EXCEPT !.outs = Append(@, r.ret)]]
  /\ UNCHANGED <<pc, call, age, last, tr, bin, binLast>>

NextPair ==
  \E i \in 1..2, init \in BOOLEAN, start \in Seeds : PairUniform(i, start, init)

SpecPair == Init /\ [][NextPair]_vars

----------------------------------------------------------------------------
(* TSMT$Bin.  Percentages and thresholds are in percent: the threshold 1 is 100. *)

\* Array.prototype.sort((a, b) => b - a): decreasing order
RECURSIVE SortDecreasing(_)
SortDecreasing(q) ==
  IF q = <<>> THEN <<>>
  ELSE LET m == CHOOSE i \in 1..Len(q) : \A k \in 1..Len(q) : q[i] >= q[k]
       IN <<q[m]>> \o SortDecreasing([k \in 1..(Len(q) - 1) |->
                                        IF k < m THEN q[k] ELSE q[k + 1]])

\* the sum of the first i numbers of q
RECURSIVE Sum(_, _)
Sum(q, i) == IF i = 0 THEN 0 ELSE Sum(q, i - 1) + q[i]

\* The normalization of create(): running sums of the sorted percentages, the
\* last one set to 1.
Normalized(q) ==
  [i \in 1..Len(q) |-> IF i = Len(q) THEN 100 ELSE Sum(q, i)]

\* create(bins): the bins after the call and the returned flag
create(bins) ==
  LET n   == Len(bins)
      pct == [i \in 1..n |-> bins[i].percentage]
      act == [i \in 1..n |-> bins[i].action]
  IN IF n = 0 THEN [b |-> NewBin, ok |-> FALSE]
     ELSE IF Sum(pct, n) # 100 THEN [b |-> NewBin, ok |-> FALSE]
     ELSE [b |-> [_bins |-> Normalized(SortDecreasing(pct)), _actions |-> act],
           ok |-> TRUE]

\* nextAction() for the test value t: the action of the first bin whose
\* threshold is at least t, 0 for null
RECURSIVE Scan(_, _, _)
Scan(b, t, i) ==
  IF i > Len(b._bins) THEN 0
  ELSE IF b._bins[i] >= t THEN b._actions[i]
  ELSE Scan(b, t, i + 1)

nextAction(b, t) == Scan(b, t, 1)

Create(bins) ==
  /\ LET c == create(bins)
     IN /\ bin' = c.b
        /\ binLast' = [input |-> bins, created |-> c.ok, test |-> 0, action |-> 0]
  /\ UNCHANGED <<d, pc, call, age, last, tr, e, runs>>

NextAction(t) ==
  /\ binLast' = [binLast EXCEPT !.test = t, !.action = nextAction(bin, t)]
  /\ UNCHANGED <<d, pc, call, age, last, tr, e, runs, bin>>

\* clear()
Clear ==
  /\ bin' = NewBin
  /\ binLast' = NoBinCall
  /\ UNCHANGED <<d, pc, call, age, last, tr, e, runs>>

NextBin ==
  \/ \E bins \in BinInputs : Create(bins)
  \/ \E t \in TestPoints : NextAction(t)
  \/ Clear

SpecBin == Init /\ [][NextBin]_vars

----------------------------------------------------------------------------
(* Properties of the uniform engine *)

\* the instance has been through an initializing call: the warm-up has
\* filled the whole table
Initialized == d.iv[NTAB - 1] # Undefined

\* a deviate lies strictly between 0 and 1
InOpenUnit(x) == x = RNMX \/ (IsNum(x) /\ 0 < x /\ x < IM)

\* the first call uniform(start, true) on a new instance
FirstDraw(start) == uniform(NewDeviates, start, TRUE)

\* C2: every uniform(start, init) made after or as an initializing call
\* returns a value strictly between 0 and 1, and the table value it scales
\* is at least 1.
C2_UniformInOpenUnit ==
  (pc = "idle" /\ last.op = "uniform" /\ Initialized /\ IsNum(tr.seed))
    => (InOpenUnit(last.val[1]) /\ IsNum(tr.iy) /\ tr.iy >= 1)

C6_SeedNormalized ==
  /\ (pc = "idle" /\ last.op = "uniform" /\ last.init
        /\ (IsNaN(last.start) \/ last.start <= 0))
       => LET f == FirstDraw(1)
          IN d.idum = f.g.idum /\ d.iv = f.g.iv /\ last.val = <<f.ret>>
  /\ Initialized => d.idum # 0

\* C10: in a sequence started with a seed s >= 1, a continuing
\* uniform(_, false) selects the table index floor(iy/NDIV) for the table
\* value iy read by the uniform call before it, as the reference ran1 does.
C10_ContinuationCarry ==
  (Initialized /\ IsNum(tr.seed) /\ tr.seed >= 1 /\ ~tr.init /\ tr.n = 2)
    => tr.j = FloorDivNDIV(tr.prevIy)

----------------------------------------------------------------------------
(* Properties of normal() and logistic() *)

\* The value normal(start, mu, sig, true) returns on a new instance, when it
\* returns: both draws of the pair re-initialize the engine.
FreshNormal(start, mu, sig) ==
  LET r1 == FirstDraw(start)
      r2 == uniform(r1.g, start, TRUE)
      v1 == VNum(r1.ret)
      v2 == VNum(r2.ret)
  IN [returns |-> ~Rejected(v1, v2),
      val |-> Affine(MeanOf(mu), StdOf(sig), Polar(v2, v1)),
      g |-> r2.g]

\* C4: a re-initializing call discards the cached normal value, so that
\* normal(s, mu, sig, true) re-seeds the engine and returns what a new
\* instance returns for it, and uniform(s, true) leaves no cached value.
C4_ReinitDiscardsCache ==
  /\ (pc = "idle" /\ last.op = "normal" /\ last.init)
       => LET f == FreshNormal(last.start, last.mu, last.sig)
          IN f.returns => (last.val = f.val /\ d.idum = f.g.idum /\ d.iv = f.g.iv)
  /\ (pc = "idle" /\ last.op = "uniform" /\ last.init) => d.normVal[1] = 0

\* C5: of two consecutive normal() calls exactly one draws from the uniform
\* engine; the one that draws makes at least two draws and fills the cache,
\* the other makes none and empties it.
C5_CacheAlternates ==
  (pc = "idle" /\ last.op = "normal")
    => /\ \/ last.draws >= 2 /\ d.normVal[1] # 0
          \/ last.draws = 0 /\ d.normVal[1] = 0
       /\ last.prevNormal # -1 => (last.draws = 0) # (last.prevNormal = 0)

\* three consecutive normal() calls: the one before the last drew, the last
\* one reused the cache
C5_Witness ==
  /\ pc = "idle" /\ last.op = "normal"
  /\ last.prevNormal = 2 /\ last.draws = 0
  /\ d.normVal[1] = 0
  /\ Initialized

\* C8: an initializing normal() or logistic() stores mean 0 for a NaN or
\* negative mean and the supplied mean otherwise, and standard deviation 1
\* for a NaN, zero or negative value and the supplied value otherwise, so the
\* stored standard deviation is a positive number.
C8_ParameterFallback ==
  (pc = "idle" /\ last.op \in {"normal", "logistic"} /\ last.init)
    => /\ d.u = (IF IsNaN(last.mu) \/ last.mu < 0 THEN 0 ELSE last.mu)
       /\ d.s = (IF IsNaN(last.sig) \/ last.sig <= 0 THEN 1 ELSE last.sig)
       /\ IsNum(d.s) /\ d.s > 0

\* the stored distribution parameters of the instance g
Parameters(g) == <<g.u, g.s, g.a, g.b, g.a1, g.a2>>

\* C11: on an initialized instance, a call of normal(), logistic() or gamma()
\* with init false leaves the
\* stored parameters u, s, a, b, a1, a2 unchanged whatever its arguments are,
\* and a call with init true stores the parameters it is given: normal() and
\* logistic() the mean and standard deviation, gamma() the shape and rate
\* and the a1, a2 derived from them.
C11_ParametersFollowInit ==
  [][ LET op == IF pc' = "idle" THEN last'.op ELSE pc'
          c  == IF pc' = "idle" THEN last' ELSE call'
      IN (pc = "idle" /\ Initialized /\ op \in {"normal", "logistic", "gamma"})
           => IF ~c.init
                THEN Parameters(d') = Parameters(d)
                ELSE IF op = "gamma"
                  THEN Parameters(d') = Parameters(SetShape(d, c.mu, c.sig))
                  ELSE Parameters(d') =
                         Parameters([d EXCEPT !.u = MeanOf(c.mu), !.s = StdOf(c.sig)])
    ]_vars

----------------------------------------------------------------------------
(* Termination of the retry loops *)

\* C12: normal(s, mu, sig, true) with a seed s >= 1 returns: once its
\* rejection loop is running it eventually accepts a pair and leaves the loop.
C12_NormalInitTerminates ==
  (pc = "normal" /\ call.init /\ IsNum(call.start) /\ call.start >= 1)
    ~> (pc = "idle")

\* C7: every exponential() and logistic() call returns: a call whose loop is
\* running eventually leaves it.
C7_RetryLoopsTerminate ==
  (pc \in {"exponential", "logistic"}) ~> (pc = "idle")

----------------------------------------------------------------------------
(* Two instances with the same seed *)

Min(x, y) == IF x < y THEN x ELSE y

\* C1: two instances that each called uniform(s, true) and then
\* uniform(s, false), for the same s >= 1, have produced the same deviate at
\* every position, and after equally many calls hold the same seed and table.
C1_SameSeedSameStream ==
  LET a == runs[1]
      b == runs[2]
  IN (IsNum(a.seed) /\ a.seed >= 1 /\ a.seed = b.seed)
       => /\ \A k \in 1..Min(Len(a.outs), Len(b.outs)) : a.outs[k] = b.outs[k]
          /\ Len(a.outs) = Len(b.outs) => (d.idum = e.idum /\ d.iv = e.iv)

\* both instances are MaxDraws calls past an initialization with the same
\* seed s >= 1, after different earlier use
C1_Witness ==
  /\ IsNum(runs[1].seed) /\ runs[1].seed >= 1 /\ runs[1].seed = runs[2].seed
  /\ Len(runs[1].outs) = MaxDraws + 1
  /\ Len(runs[2].outs) = MaxDraws + 1
  /\ d.ivNaN # e.ivNaN

----------------------------------------------------------------------------
(* Bin selection *)

\* the share of the test values, in percent, for which nextAction() returns a
Measure(a) == PercentStep * Cardinality({t \in TestPoints : nextAction(bin, t) = a})

\* C9: after create(bins) returned true, each action is returned for a share
\* of the test values equal to its own percentage, the thresholds do not
\* decrease and end at 1, and nextAction() does not return null.
C9_BinsHonourPercentages ==
  binLast.created
    => /\ \A i \in 1..Len(binLast.input) :
            Measure(binLast.input[i].action) = binLast.input[i].percentage
       /\ \A i \in 1..(Len(bin._bins) - 1) : bin._bins[i] <= bin._bins[i + 1]
       /\ bin._bins[Len(bin._bins)] = 100
       /\ binLast.test # 0 => binLast.action # 0

====
